---- MODULE Spec2Model ----
(***************************************************************************)
(* Model of the Tor bridges harvester (src/src/main_grok_hide_logs.go):    *)
(* the policy filter (filterAndSortRelays, parseAddress), the batch loop   *)
(* of main and the probe goroutines (checkRelay).                          *)
(*                                                                         *)
(* Strings are sequences of one-character strings, so that splitting,      *)
(* trimming and formatting are computed and not assumed.                   *)
(***************************************************************************)
EXTENDS Integers, Sequences, FiniteSets, TLC

(***************************************************************************)
(* Bounds of the model.                                                    *)
(***************************************************************************)
\* longest fetched relay list
MaxRelays == 2
\* largest value of the flag -n
MaxNumRelays == 2
\* largest value of the flag -g
MaxGoal == 1

(***************************************************************************)
(* Program constants.                                                      *)
(***************************************************************************)
\* rank given to a country absent from sortedCountries (lines 187, 190)
UnrankedRank == 1000
\* capacity of the results channel per relay of the chunk (line 355)
ChanFactor == 10

(***************************************************************************)
(* String helpers (package strings, fmt).                                  *)
(***************************************************************************)
Min(S) == CHOOSE x \in S : \A y \in S : x <= y

Max(S) == CHOOSE x \in S : \A y \in S : x >= y

\* strings.Split(s, sep) for a one-character separator: the parts between
\* the separators, in order; one part more than there are separators.
Split(s, sep) ==
  LET seps   == {q \in 1..Len(s) : s[q] = sep}
      starts == {1} \cup {q + 1 : q \in seps}
      endOf(p) == LET later == {q \in seps : q >= p}
                  IN  IF later = {} THEN Len(s) ELSE Min(later) - 1
      parts  == {<<Cardinality({q \in seps : q < p}) + 1,
                   SubSeq(s, p, endOf(p))>> : p \in starts}
  IN  [k \in 1..Cardinality(starts) |->
         (CHOOSE pr \in parts : pr[1] = k)[2]]

\* strings.TrimSpace
TrimSpace(s) ==
  LET solid == {q \in 1..Len(s) : s[q] # " "}
  IN  IF solid = {} THEN <<>> ELSE SubSeq(s, Min(solid), Max(solid))

\* strings.HasPrefix(s, p) for a one-character p
HasPrefix(s, p) == Len(s) >= 1 /\ s[1] = p

\* strings.Contains(s, "]:")
ContainsBracketColon(s) ==
  \E q \in 1..(Len(s) - 1) : s[q] = "]" /\ s[q + 1] = ":"

\* strings.LastIndex(s, ":"), one-based; 0 when absent
LastIndex(s, c) ==
  LET at == {q \in 1..Len(s) : s[q] = c}
  IN  IF at = {} THEN 0 ELSE Max(at)

(***************************************************************************)
(* parseAddress: host and port of an address.                              *)
(***************************************************************************)
parseAddress(addr) ==
  LET parts == Split(addr, ":")
  IN  IF Len(parts) < 2
      THEN [host |-> <<>>, port |-> <<>>]
      ELSE IF HasPrefix(parts[1], "[") /\ ContainsBracketColon(addr)
           THEN LET portIdx == LastIndex(addr, ":")
                IN  [host |-> SubSeq(addr, 2, portIdx - 1),
                     port |-> SubSeq(addr, portIdx + 1, Len(addr))]
           ELSE [host |-> parts[1], port |-> parts[Len(parts)]]

(***************************************************************************)
(* Go maps are functions; a nil or empty map is the empty function.        *)
(***************************************************************************)
EmptyMap == [k \in {} |-> 0]

HasKey(m, k) == k \in DOMAIN m

\* The three maps built by the loop of lines 140-149: token number i
\* (zero-based, counted over all tokens) is trimmed, and goes by its first
\* character into onlyCountries, excludeCountries or sortedCountries; a later
\* token with the same key overwrites the index of an earlier one.
parseCountries(preferredCountry) ==
  IF preferredCountry = <<>>
  THEN [onlyCountries |-> EmptyMap, excludeCountries |-> EmptyMap,
        sortedCountries |-> EmptyMap]
  ELSE
    LET countries == Split(preferredCountry, ",")
        tok(i)  == TrimSpace(countries[i + 1])
        idx     == 0..(Len(countries) - 1)
        onlyI   == {i \in idx : HasPrefix(tok(i), "!")}
        exclI   == {i \in idx : ~HasPrefix(tok(i), "!") /\ HasPrefix(tok(i), "-")}
        sortI   == idx \ (onlyI \cup exclI)
        mapOf(I, key(_)) ==
          [k \in {key(i) : i \in I} |-> Max({i \in I : key(i) = k})]
        rest(i) == Tail(tok(i))
    IN  [onlyCountries    |-> mapOf(onlyI, rest),
         excludeCountries |-> mapOf(exclI, rest),
         sortedCountries  |-> mapOf(sortI, tok)]

\* countryPasses with the exclusion test reached only when no exclusive
\* country is given
countryPasses_ElseIf(r, onlyCountries, excludeCountries) ==
  IF DOMAIN onlyCountries # {} THEN HasKey(onlyCountries, r.Country)
  ELSE ~HasKey(excludeCountries, r.Country)

\* lines 154-161: the country tests of one relay
countryPasses(r, onlyCountries, excludeCountries) ==
  /\ (DOMAIN onlyCountries # {}) => HasKey(onlyCountries, r.Country)
  /\ ~HasKey(excludeCountries, r.Country)

\* lines 167-172: the loop over ports for one address, from port number k on;
\* the address is appended at the first equal port, and the loop is left.
RECURSIVE portLoop(_, _, _)
portLoop(addr, ports, k) ==
  IF k > Len(ports) THEN <<>>
  ELSE IF ports[k] = parseAddress(addr).port THEN <<addr>>
  ELSE portLoop(addr, ports, k + 1)

\* lines 164-173: newAddrs of a relay
RECURSIVE narrowAddrs(_, _, _)
narrowAddrs(addrs, ports, k) ==
  IF k > Len(addrs) THEN <<>>
  ELSE portLoop(addrs[k], ports, 1) \o narrowAddrs(addrs, ports, k + 1)

\* lines 153-180: the filter loop from relay number k on
RECURSIVE filterLoop(_, _, _, _)
filterLoop(relays, maps, ports, k) ==
  IF k > Len(relays) THEN <<>>
  ELSE
    LET r == relays[k]
        rest == filterLoop(relays, maps, ports, k + 1)
    IN  IF ~countryPasses(r, maps.onlyCountries, maps.excludeCountries)
        THEN rest
        ELSE IF Len(ports) > 0
             THEN LET newAddrs == narrowAddrs(r.OrAddresses, ports, 1)
                  IN  IF Len(newAddrs) = 0 THEN rest
                      ELSE <<[r EXCEPT !.OrAddresses = newAddrs]>> \o rest
             ELSE <<r>> \o rest

\* lines 184-191: the sort key of a relay
rankOf(r, sortedCountries) ==
  IF HasKey(sortedCountries, r.Country)
  THEN sortedCountries[r.Country] ELSE UnrankedRank

\* line 192: the less function handed to sort.Slice
lessRelay(a, b, sortedCountries) ==
  rankOf(a, sortedCountries) < rankOf(b, sortedCountries)

Front(q) == SubSeq(q, 1, Len(q) - 1)

Last(q) == q[Len(q)]

\* the inner loop of sort.insertionSort_func: x moves left past every
\* element it is less than
RECURSIVE insertSorted(_, _, _)
insertSorted(sorted, x, sortedCountries) ==
  IF sorted # <<>> /\ lessRelay(x, Last(sorted), sortedCountries)
  THEN Append(insertSorted(Front(sorted), x, sortedCountries), Last(sorted))
  ELSE Append(sorted, x)

\* sort.Slice (line 183). Package sort gives no guarantee of stability; every
\* Go release from 1.18 on sorts a slice of at most 6 elements by
\* insertionSort_func alone, which is what is computed here, and the lists
\* of the model are shorter than that.
RECURSIVE sortSlice(_, _, _)
sortSlice(filtered, sortedCountries, n) ==
  IF n = 0 THEN <<>>
  ELSE insertSorted(sortSlice(filtered, sortedCountries, n - 1), filtered[n],
                    sortedCountries)

\* filterAndSortRelays: the slice it returns
filterAndSortRelays(relays, preferredCountry, ports) ==
  LET maps == parseCountries(preferredCountry)
      filtered == filterLoop(relays, maps, ports, 1)
  IN  IF DOMAIN maps.sortedCountries # {}
      THEN sortSlice(filtered, maps.sortedCountries, Len(filtered))
      ELSE filtered

\* main, lines 296-299: the port list of the flag -p
portListOf(ports) == IF ports # <<>> THEN Split(ports, ",") ELSE <<>>

(***************************************************************************)
(* Formatting.                                                             *)
(***************************************************************************)
\* fmt.Sprintf("%s %s\n", address, fingerprint), line 101
sinkLine(address, fingerprint) == address \o <<" ">> \o fingerprint \o <<"\n">>

\* WriteString on a file opened without O_APPEND, written from its start
WriteString_Truncating(file, line) == line

\* file.WriteString on a file opened with O_APPEND, line 103
WriteString(file, line) == file \o line

RECURSIVE Concat(_)
Concat(ss) == IF ss = <<>> THEN <<>> ELSE Head(ss) \o Concat(Tail(ss))

\* generateOutput writing "UseBridges 1" whatever the flag -torrc
generateOutputText_AlwaysTrailer(working, torrc) ==
  LET prefix == IF torrc THEN <<"B", "r", "i", "d", "g", "e", " ">> ELSE <<>>
      linesOf(r) == Concat([k \in 1..Len(r.Reachable) |->
                       prefix \o r.Reachable[k] \o <<" ">> \o r.Fingerprint \o <<"\n">>])
  IN  Concat([k \in 1..Len(working) |-> linesOf(working[k])])
        \o <<"U", "s", "e", "B", "r", "i", "d", "g", "e", "s", " ", "1", "\n">>

\* generateOutput, lines 201-218: the text written to outfile
generateOutputText(working, torrc) ==
  LET prefix == IF torrc THEN <<"B", "r", "i", "d", "g", "e", " ">> ELSE <<>>
      linesOf(r) == Concat([k \in 1..Len(r.Reachable) |->
                       prefix \o r.Reachable[k] \o <<" ">> \o r.Fingerprint \o <<"\n">>])
      useBridges == <<"U", "s", "e", "B", "r", "i", "d", "g", "e", "s", " ", "1", "\n">>
  IN  Concat([k \in 1..Len(working) |-> linesOf(working[k])])
        \o (IF torrc THEN useBridges ELSE <<>>)

\* writer.Flush() left out: the buffered text is lost when main exits
Flush_Missing(buffer) == <<>>

\* writer.Flush(), line 218: the buffered text reaches outfile
Flush(buffer) == buffer

\* strings.Contains(s, sub)
Contains(s, sub) ==
  \E q \in 0..(Len(s) - Len(sub)) : SubSeq(s, q + 1, q + Len(sub)) = sub

\* strings.Join(parts, sep)
RECURSIVE Join(_, _)
Join(parts, sep) ==
  IF parts = <<>> THEN <<>>
  ELSE IF Len(parts) = 1 THEN parts[1]
  ELSE parts[1] \o sep \o Join(Tail(parts), sep)

Digits == <<"0", "1", "2", "3", "4", "5", "6", "7", "8", "9">>

\* the verb %d of fmt.Sprintf, for n >= 0
RECURSIVE Itoa(_)
Itoa(n) == IF n < 10 THEN <<Digits[n + 1]>>
           ELSE Itoa(n \div 10) \o <<Digits[(n % 10) + 1]>>

\* "torbrowser.settings.bridges.", line 231
BridgeKey ==
  <<"t", "o", "r", "b", "r", "o", "w", "s", "e", "r", ".", "s", "e",
    "t", "t", "i", "n", "g", "s", ".", "b", "r", "i", "d", "g", "e",
    "s", ".">>

\* `user_pref("torbrowser.settings.bridges.bridge_strings.`, line 237
BridgeStringHead ==
  <<"u", "s", "e", "r", "_", "p", "r", "e", "f", "(", "\"", "t", "o",
    "r", "b", "r", "o", "w", "s", "e", "r", ".", "s", "e", "t", "t",
    "i", "n", "g", "s", ".", "b", "r", "i", "d", "g", "e", "s", ".",
    "b", "r", "i", "d", "g", "e", "_", "s", "t", "r", "i", "n", "g",
    "s", ".">>

\* line 237: the line of one address
prefsLine(index, addr, fingerprint) ==
  BridgeStringHead \o Itoa(index) \o <<"\"", ",", " ", "\"">>
    \o addr \o <<" ">> \o fingerprint \o <<"\"", ")", ";">>

\* line 240
EnabledLine ==
  <<"u", "s", "e", "r", "_", "p", "r", "e", "f", "(", "\"", "t", "o",
    "r", "b", "r", "o", "w", "s", "e", "r", ".", "s", "e", "t", "t",
    "i", "n", "g", "s", ".", "b", "r", "i", "d", "g", "e", "s", ".",
    "e", "n", "a", "b", "l", "e", "d", "\"", ",", " ", "t", "r", "u",
    "e", ")", ";">>

\* line 241
SourceLine ==
  <<"u", "s", "e", "r", "_", "p", "r", "e", "f", "(", "\"", "t", "o",
    "r", "b", "r", "o", "w", "s", "e", "r", ".", "s", "e", "t", "t",
    "i", "n", "g", "s", ".", "b", "r", "i", "d", "g", "e", "s", ".",
    "s", "o", "u", "r", "c", "e", "\"", ",", " ", "2", ")", ";">>

\* line 235: the index i of the loop over workingRelays, for relay number k
\* (counted from 1)
indexOfRelay(k) == k - 1

\* lines 235-239: the lines of relay number k on
RECURSIVE bridgeLines(_, _)
bridgeLines(working, k) ==
  IF k > Len(working) THEN <<>>
  ELSE [a \in 1..Len(working[k].Reachable) |->
          prefsLine(indexOfRelay(k), working[k].Reachable[a],
                    working[k].Fingerprint)]
       \o bridgeLines(working, k + 1)

\* lines 228-242: the new content of prefs.js
prefsContent(content, working) ==
  LET lines == Split(content, "\n")
      newLines == SelectSeq(lines, LAMBDA l : ~Contains(l, BridgeKey))
  IN  Join(newLines \o bridgeLines(working, 1) \o <<EnabledLine, SourceLine>>,
           <<"\n">>)

\* lines 220-244: what generateOutput returns and leaves in prefs.js
generateOutputPrefs(working, path, file) ==
  IF path = <<>> THEN [err |-> FALSE, file |-> file]
  ELSE IF file.state = "missing" THEN [err |-> TRUE, file |-> file]
  ELSE IF file.state = "unreadable" THEN [err |-> TRUE, file |-> file]
  ELSE IF file.state = "readonly" THEN [err |-> TRUE, file |-> file]
  ELSE [err |-> FALSE,
        file |-> [file EXCEPT !.content = prefsContent(file.content, working)]]

(***************************************************************************)
(* The values the inputs are drawn from.                                   *)
(***************************************************************************)
A4 == <<"a", ":", "4">>
A9 == <<"a", ":", "9">>
B4 == <<"b", ":", "4">>
C9 == <<"c", ":", "9">>
V6 == <<"[", "d", ":", "e", "]", ":", "4">>
NoPort == <<"f">>

Relay(fp, addrs, country) ==
  [Fingerprint |-> fp, OrAddresses |-> addrs, Country |-> country,
   Reachable |-> <<>>]

RelayP == Relay(<<"P">>, <<A4, A9>>, <<"U">>)
RelayQ == Relay(<<"Q">>, <<B4>>, <<"C">>)
RelayR == Relay(<<"R">>, <<C9>>, <<"U">>)
RelayS == Relay(<<"S">>, <<V6, NoPort>>, <<>>)

\* the lists of at most n different relays of a set, in every order
RECURSIVE ListsOf(_, _)
ListsOf(S, n) ==
  IF n = 0 THEN {<<>>}
  ELSE LET shorter == ListsOf(S, n - 1)
       IN  shorter \cup
           {Append(l, r) : l \in {x \in shorter : Len(x) = n - 1},
                           r \in S} 

Distinct(l) == \A a, b \in 1..Len(l) : a # b => l[a] # l[b]

(***************************************************************************)
(* State.                                                                  *)
(***************************************************************************)
VARIABLES
  fetched,          \* the relays returned by loadRelays, shuffled (line 321)
  preferredCountry, \* flag -c
  ports,            \* flag -p
  numRelays,        \* flag -n
  goal,             \* flag -g
  torrcFmt,         \* flag -torrc
  loopVarPerIter,   \* the build: TRUE when each iteration of a for statement
                    \* has its own variable (Go 1.22 on), FALSE when the
                    \* statement has one variable (Go 1.18 to 1.21)
  pc,               \* where main is
  relays,           \* main's relays after line 322
  bridgesFile,      \* the content of _bridges.txt
  bridgesOpen,      \* whether main has opened _bridges.txt (line 329)
  mu,               \* the mutex: 0 when free, else the goroutine holding it
  i,                \* the index of the batch loop (line 339)
  end,              \* line 340-343
  ri,               \* how many relays of the chunk the loop of line 356 has taken
  ai,               \* how many addresses the loop of line 357 has taken
  loopVars,         \* the variable(s) relay of the loop of line 356
  tasks,            \* the checkRelay goroutines launched so far, all batches
  results,          \* the buffer of the channel results
  wg,               \* the counter of the WaitGroup
  workingRelays,    \* line 338
  outfile,          \* what generateOutput has written
  batchNo,          \* how many batches have been launched
  prefsjs,          \* flag -browser: the path of prefs.js, empty when not given
  prefsFile,        \* the file at that path: whether it exists and can be
                    \* read and written, and its content
  parseIn,          \* the argument of a call of parseAddress
  parseOut,         \* what that call returned
  fileAtLaunch      \* history: bridgesFile when the current batch was launched

vars == <<fetched, preferredCountry, ports, numRelays, goal, torrcFmt,
          loopVarPerIter, pc, relays, bridgesFile, bridgesOpen, mu, i, end,
          ri, ai, loopVars, tasks, results, wg, workingRelays, outfile,
          batchNo, fileAtLaunch, prefsjs, prefsFile, parseIn, parseOut>>

flags == <<fetched, preferredCountry, ports, numRelays, goal, torrcFmt,
           loopVarPerIter, prefsjs>>

\* the state only generateOutput and a lone call of parseAddress touch
others == <<prefsFile, parseIn, parseOut>>

\* what a previous run left in _bridges.txt
OldContent == <<"o", " ", "O", "\n">>

\* no file at the path of prefs.js
NoFile == [state |-> "missing", content |-> <<>>]

\* the flag -browser is not given
InitNoPrefs == prefsjs = <<>> /\ prefsFile = NoFile

\* the state main is in when it reaches line 322, whatever the flags
InitRest ==
  /\ pc = "filter"
  /\ relays = <<>>
  /\ bridgesOpen = FALSE
  /\ mu = 0
  /\ i = 0
  /\ end = 0
  /\ ri = 0
  /\ ai = 0
  /\ loopVars = <<>>
  /\ tasks = <<>>
  /\ results = <<>>
  /\ wg = 0
  /\ workingRelays = <<>>
  /\ outfile = <<>>
  /\ batchNo = 0
  /\ fileAtLaunch = <<>>
  /\ parseIn = <<>>
  /\ parseOut = [host |-> <<>>, port |-> <<>>]

Init ==
  /\ fetched \in {l \in ListsOf({RelayP, RelayQ, RelayR}, MaxRelays) : Distinct(l)}
  /\ \E f \in {<<<<>>, <<>>>>, <<<<"!", "U">>, <<"4">>>>} :
       preferredCountry = f[1] /\ ports = f[2]
  /\ numRelays \in 1..MaxNumRelays
  /\ goal \in 1..MaxGoal
  /\ torrcFmt = FALSE
  /\ loopVarPerIter \in BOOLEAN
  /\ bridgesFile = OldContent
  /\ InitNoPrefs
  /\ InitRest

(***************************************************************************)
(* main.                                                                   *)
(***************************************************************************)
\* the test of line 323 left out
NoRelaysMatch_Never(rs) == FALSE

\* line 323
NoRelaysMatch(rs) == Len(rs) = 0

\* lines 322-326: filter; log.Fatal when nothing is left
Filter ==
  /\ pc = "filter"
  /\ relays' = filterAndSortRelays(fetched, preferredCountry, portListOf(ports))
  /\ pc' = IF NoRelaysMatch(relays') THEN "fatal" ELSE "open"
  /\ UNCHANGED <<flags, others, bridgesFile, bridgesOpen, mu, i, end, ri, ai, loopVars,
                 tasks, results, wg, workingRelays, outfile, batchNo,
                 fileAtLaunch>>

\* lines 329-333: open _bridges.txt for appending; log.Fatal when that fails
OpenBridges ==
  /\ pc = "open"
  /\ \E ok \in BOOLEAN :
       /\ bridgesOpen' = ok
       /\ pc' = IF ok THEN "loop" ELSE "fatal"
  /\ UNCHANGED <<flags, others, relays, bridgesFile, mu, i, end, ri, ai, loopVars,
                 tasks, results, wg, workingRelays, outfile, batchNo,
                 fileAtLaunch>>

\* line 344
chunk == SubSeq(relays, i + 1, end)

\* line 339, the condition of the batch loop
loopCondition == i < Len(relays) /\ Len(workingRelays) < goal

\* lines 339-355: the loop condition; a new chunk, WaitGroup and channel
\* the end of the chunk taken one short
chunkEnd_Short(from, n, len) == IF from + n > len THEN len ELSE from + n - 1

\* lines 340-343: the end of the chunk that starts after relay number from
chunkEnd(from, n, len) == IF from + n > len THEN len ELSE from + n

LoopHead ==
  /\ pc = "loop"
  /\ IF loopCondition
     THEN /\ end' = chunkEnd(i, numRelays, Len(relays))
          /\ wg' = 0
          /\ results' = <<>>
          /\ ri' = 0
          /\ ai' = 0
          /\ loopVars' = <<>>
          /\ batchNo' = batchNo + 1
          /\ fileAtLaunch' = bridgesFile
          /\ pc' = "range"
     ELSE /\ pc' = "finish"
          /\ UNCHANGED <<end, wg, results, ri, ai, loopVars, batchNo,
                         fileAtLaunch>>
  /\ UNCHANGED <<flags, others, relays, bridgesFile, bridgesOpen, mu, i, tasks,
                 workingRelays, outfile>>

\* line 356: the next relay of the chunk is copied into the loop variable
RangeChunk ==
  /\ pc = "range"
  /\ IF ri < Len(chunk)
     THEN /\ loopVars' = IF loopVarPerIter THEN Append(loopVars, chunk[ri + 1])
                         ELSE <<chunk[ri + 1]>>
          /\ ri' = ri + 1
          /\ ai' = 0
          /\ pc' = "spawn"
     ELSE /\ pc' = "wait"
          /\ UNCHANGED <<loopVars, ri, ai>>
  /\ UNCHANGED <<flags, others, relays, bridgesFile, bridgesOpen, mu, i, end, tasks,
                 results, wg, workingRelays, outfile, batchNo, fileAtLaunch>>

\* the loop variable of the iteration main is in
curVar == Len(loopVars)

\* lines 357-360: wg.Add(1) and go checkRelay(addr, ..., &relay, ...)
Spawn ==
  /\ pc = "spawn"
  /\ IF ai < Len(loopVars[curVar].OrAddresses)
     THEN /\ wg' = wg + 1
          /\ tasks' = Append(tasks,
               [address |-> loopVars[curVar].OrAddresses[ai + 1],
                relay   |-> curVar,
                pc      |-> "dial",
                line    |-> <<>>,
                cand    |-> i + ri,
                batch   |-> batchNo])
          /\ ai' = ai + 1
          /\ pc' = "spawn"
     ELSE /\ pc' = "range"
          /\ UNCHANGED <<wg, tasks, ai>>
  /\ UNCHANGED <<flags, others, relays, bridgesFile, bridgesOpen, mu, i, end, ri,
                 loopVars, results, workingRelays, outfile, batchNo,
                 fileAtLaunch>>

\* wg.Wait() left out
WaitReturns_NoBarrier == TRUE

\* line 362: wg.Wait() returns when the counter is zero
WaitReturns == wg = 0

\* lines 362-363: wg.Wait(); close(results)
Wait ==
  /\ pc = "wait"
  /\ WaitReturns
  /\ pc' = "fold"
  /\ UNCHANGED <<flags, others, relays, bridgesFile, bridgesOpen, mu, i, end, ri, ai,
                 loopVars, tasks, results, wg, workingRelays, outfile, batchNo,
                 fileAtLaunch>>

\* lines 365-367: every result is appended to the Reachable of the relay its
\* pointer designates, which is a loop variable
RECURSIVE foldResults(_, _)
foldResults(lv, res) ==
  IF res = <<>> THEN lv
  ELSE foldResults(
         [lv EXCEPT ![Head(res).Relay].Reachable = Append(@, Head(res).Address)],
         Tail(res))

Fold ==
  /\ pc = "fold"
  /\ loopVars' = foldResults(loopVars, results)
  /\ results' = <<>>
  /\ pc' = "collect"
  /\ UNCHANGED <<flags, others, relays, bridgesFile, bridgesOpen, mu, i, end, ri, ai,
                 tasks, wg, workingRelays, outfile, batchNo, fileAtLaunch>>

\* lines 369-373: the relays of the chunk whose Reachable is not empty
reachableOf(c) == SelectSeq(c, LAMBDA r : Len(r.Reachable) > 0)

\* lines 369-373 and the increment of line 339
Collect ==
  /\ pc = "collect"
  /\ workingRelays' = workingRelays \o reachableOf(chunk)
  /\ i' = i + numRelays
  /\ pc' = "loop"
  /\ UNCHANGED <<flags, others, relays, bridgesFile, bridgesOpen, mu, end, ri, ai,
                 loopVars, tasks, results, wg, outfile, batchNo, fileAtLaunch>>

\* lines 385-392: generateOutput when there are working relays; log.Fatal
\* when it returns an error
Finish ==
  /\ pc = "finish"
  /\ IF Len(workingRelays) > 0
     THEN LET prefs == generateOutputPrefs(workingRelays, prefsjs, prefsFile)
          IN  /\ outfile' = outfile \o
                              Flush(generateOutputText(workingRelays, torrcFmt))
              /\ prefsFile' = prefs.file
              /\ pc' = IF prefs.err THEN "fatal" ELSE "done"
     ELSE /\ pc' = "done"
          /\ UNCHANGED <<outfile, prefsFile>>
  /\ UNCHANGED <<flags, parseIn, parseOut, relays, bridgesFile, bridgesOpen,
                 mu, i, end, ri, ai, loopVars, tasks, results, wg,
                 workingRelays, batchNo, fileAtLaunch>>

(***************************************************************************)
(* checkRelay, goroutine t.                                                *)
(***************************************************************************)
\* wg.Done() called on the success path only
doneAfterFailure_Missing(w) == w

\* line 93 with line 111: what the deferred wg.Done() makes of the counter
\* when the dial has failed
doneAfterFailure(w) == w - 1

\* a goroutine that sends its result without writing its line
afterDial_NoWrite == "send"

\* lines 100-104: what a goroutine does next when its dial has succeeded,
\* which is to take the mutex and write its line
afterDial == "lock"

\* lines 94-101 and 110-112: the dial returns. On success the line is
\* formatted from the fingerprint the pointer relay designates at that time;
\* on failure the goroutine logs and returns.
Dial(t) ==
  /\ tasks[t].pc = "dial"
  /\ \E ok \in BOOLEAN :
       IF ok
       THEN /\ tasks' = [tasks EXCEPT
                 ![t].pc = afterDial,
                 ![t].line = sinkLine(tasks[t].address,
                                      loopVars[tasks[t].relay].Fingerprint)]
            /\ wg' = wg
       ELSE /\ tasks' = [tasks EXCEPT ![t].pc = "failed"]
            /\ wg' = doneAfterFailure(wg)
  /\ UNCHANGED <<flags, others, pc, relays, bridgesFile, bridgesOpen, mu, i, end, ri,
                 ai, loopVars, results, workingRelays, outfile, batchNo,
                 fileAtLaunch>>

\* a mutex that never makes a caller wait
lockFree_Always(m) == TRUE

\* line 102: mu.Lock() returns when no goroutine holds the mutex
lockFree(m) == m = 0

\* line 102
Lock(t) ==
  /\ tasks[t].pc = "lock"
  /\ lockFree(mu)
  /\ mu' = t
  /\ tasks' = [tasks EXCEPT ![t].pc = "write"]
  /\ UNCHANGED <<flags, others, pc, relays, bridgesFile, bridgesOpen, i, end, ri, ai,
                 loopVars, results, wg, workingRelays, outfile, batchNo,
                 fileAtLaunch>>

\* line 103
Write(t) ==
  /\ tasks[t].pc = "write"
  /\ bridgesFile' = WriteString(bridgesFile, tasks[t].line)
  /\ tasks' = [tasks EXCEPT ![t].pc = "unlock"]
  /\ UNCHANGED <<flags, others, pc, relays, bridgesOpen, mu, i, end, ri, ai, loopVars,
                 results, wg, workingRelays, outfile, batchNo, fileAtLaunch>>

\* line 104
Unlock(t) ==
  /\ tasks[t].pc = "unlock"
  /\ mu' = 0
  /\ tasks' = [tasks EXCEPT ![t].pc = "send"]
  /\ UNCHANGED <<flags, others, pc, relays, bridgesFile, bridgesOpen, i, end, ri, ai,
                 loopVars, results, wg, workingRelays, outfile, batchNo,
                 fileAtLaunch>>

\* line 355: the capacity of the channel
resultsCap == Len(chunk) * ChanFactor

\* lines 106-109 and the deferred wg.Done(): the send blocks while the
\* buffer is full
Send(t) ==
  /\ tasks[t].pc = "send"
  /\ Len(results) < resultsCap
  /\ results' = Append(results,
                  [Address |-> tasks[t].address, Relay |-> tasks[t].relay])
  /\ wg' = wg - 1
  /\ tasks' = [tasks EXCEPT ![t].pc = "sent"]
  /\ UNCHANGED <<flags, others, pc, relays, bridgesFile, bridgesOpen, mu, i, end, ri,
                 ai, loopVars, workingRelays, outfile, batchNo, fileAtLaunch>>

Next ==
  \/ Filter
  \/ OpenBridges
  \/ LoopHead
  \/ RangeChunk
  \/ Spawn
  \/ Wait
  \/ Fold
  \/ Collect
  \/ Finish
  \/ \E t \in 1..Len(tasks) : Dial(t)
  \/ \E t \in 1..Len(tasks) : Lock(t)
  \/ \E t \in 1..Len(tasks) : Write(t)
  \/ \E t \in 1..Len(tasks) : Unlock(t)
  \/ \E t \in 1..Len(tasks) : Send(t)

Spec == Init /\ [][Next]_vars

(***************************************************************************)
(* The policy filter alone, over more lists, country rules and port lists. *)
(***************************************************************************)
\* a rule of UnrankedRank + 1 tokens "Z" followed by the token "U":
\* "Z,Z,...,Z,U", where U is token number UnrankedRank + 1
LongRule ==
  [k \in 1..(2 * (UnrankedRank + 1) + 1) |->
     IF k = 2 * (UnrankedRank + 1) + 1 THEN "U"
     ELSE IF k % 2 = 0 THEN "," ELSE "Z"]

CountryRules ==
  { <<>>,
    <<"U">>,
    <<"C", ",", "U">>,
    <<"!", "U">>,
    <<"-", "U">>,
    <<" ", "!", "U", " ", ",", "-", "C">>,
    <<"U", ",", "!", "U", ",", "-", "U">>,
    <<"-", "C", ",", "U", ",", "U">>,
    <<"X", ",">>,
    LongRule }

PortFlags ==
  { <<>>, <<"4">>, <<"9", ",", "4">>, <<"4", ",", "4">>, <<"9">>, <<"4", ",">> }

InitFilter ==
  /\ fetched \in {l \in ListsOf({RelayP, RelayQ, RelayR, RelayS}, MaxRelays) :
                    Distinct(l)}
  /\ preferredCountry \in CountryRules
  /\ ports \in IF preferredCountry = LongRule THEN {<<>>} ELSE PortFlags
  /\ numRelays = 1
  /\ goal = 1
  /\ torrcFmt = FALSE
  /\ loopVarPerIter = TRUE
  /\ bridgesFile = OldContent
  /\ InitNoPrefs
  /\ InitRest

NextFilter == Filter

SpecFilter == InitFilter /\ [][NextFilter]_vars

(***************************************************************************)
(* generateOutput alone, as main calls it, over accepted sets, the flags   *)
(* -torrc and -browser and the states of prefs.js.                         *)
(***************************************************************************)
\* most relays of an accepted set
MaxAccepted == 2

WithReachable(r, reachable) == [r EXCEPT !.Reachable = reachable]

AcceptedRelays ==
  { WithReachable(RelayP, <<A4>>),
    WithReachable(RelayP, <<A4, A9>>),
    WithReachable(RelayP, <<A9, A4>>),
    WithReachable(RelayQ, <<B4>>),
    WithReachable(RelayS, <<V6>>) }

\* a line of prefs.js that is no bridge setting
OtherPref == <<"k", "=", "1">>

PrefsFiles ==
  { NoFile,
    [state |-> "unreadable", content |-> OtherPref],
    [state |-> "readonly", content |-> OtherPref],
    [state |-> "ok", content |-> <<>>],
    [state |-> "ok", content |-> OtherPref \o <<"\n">>],
    [state |-> "ok",
     content |-> prefsLine(0, B4, <<"Q">>) \o <<"\n">> \o OtherPref
                   \o <<"\n">> \o EnabledLine] }

InitOutput ==
  /\ workingRelays \in
       {l \in ListsOf(AcceptedRelays, MaxAccepted) :
          \A a, b \in 1..Len(l) : a # b => l[a].Fingerprint # l[b].Fingerprint}
  /\ torrcFmt \in BOOLEAN
  /\ prefsjs \in {<<>>, <<"p">>}
  /\ prefsFile \in IF prefsjs = <<>> THEN {NoFile} ELSE PrefsFiles
  /\ pc = "finish"
  /\ fetched = <<>>
  /\ preferredCountry = <<>>
  /\ ports = <<>>
  /\ numRelays = 1
  /\ goal = 1
  /\ loopVarPerIter = TRUE
  /\ relays = <<>>
  /\ bridgesFile = OldContent
  /\ bridgesOpen = TRUE
  /\ mu = 0
  /\ i = 0
  /\ end = 0
  /\ ri = 0
  /\ ai = 0
  /\ loopVars = <<>>
  /\ tasks = <<>>
  /\ results = <<>>
  /\ wg = 0
  /\ outfile = <<>>
  /\ batchNo = 0
  /\ fileAtLaunch = OldContent
  /\ parseIn = <<>>
  /\ parseOut = [host |-> <<>>, port |-> <<>>]

NextOutput == Finish

SpecOutput == InitOutput /\ [][NextOutput]_vars

(***************************************************************************)
(* parseAddress alone, over address strings.                               *)
(***************************************************************************)
\* longest address string drawn
MaxAddrLen == 4

AddrChars == {"[", "]", ":", "a"}

\* "[2001:db8::1]:443"
Example6 == <<"[", "2", "0", "0", "1", ":", "d", "b", "8", ":", ":", "1", "]",
              ":", "4", "4", "3">>

InitParse ==
  /\ parseIn \in ListsOf(AddrChars, MaxAddrLen) \cup {V6, Example6, A4}
  /\ parseOut = [host |-> <<>>, port |-> <<>>]
  /\ pc = "parse"
  /\ fetched = <<>>
  /\ preferredCountry = <<>>
  /\ ports = <<>>
  /\ numRelays = 1
  /\ goal = 1
  /\ torrcFmt = FALSE
  /\ loopVarPerIter = TRUE
  /\ InitNoPrefs
  /\ relays = <<>>
  /\ bridgesFile = OldContent
  /\ bridgesOpen = FALSE
  /\ mu = 0
  /\ i = 0
  /\ end = 0
  /\ ri = 0
  /\ ai = 0
  /\ loopVars = <<>>
  /\ tasks = <<>>
  /\ results = <<>>
  /\ wg = 0
  /\ workingRelays = <<>>
  /\ outfile = <<>>
  /\ batchNo = 0
  /\ fileAtLaunch = <<>>

\* one call of parseAddress
Parse ==
  /\ pc = "parse"
  /\ parseOut' = parseAddress(parseIn)
  /\ pc' = "parsed"
  /\ UNCHANGED <<flags, prefsFile, parseIn, relays, bridgesFile, bridgesOpen,
                 mu, i, end, ri, ai, loopVars, tasks, results, wg,
                 workingRelays, outfile, batchNo, fileAtLaunch>>

NextParse == Parse

SpecParse == InitParse /\ [][NextParse]_vars

(***************************************************************************)
(* Definitions shared by the properties.                                   *)
(***************************************************************************)
Range(f) == {f[x] : x \in DOMAIN f}

IsPrefix(a, b) == Len(a) <= Len(b) /\ SubSeq(b, 1, Len(a)) = a

\* the dial of goroutine t has succeeded
Succeeded(t) == tasks[t].pc \in {"lock", "write", "unlock", "send", "sent"}

\* goroutine t has returned
Finished(t) == tasks[t].pc \in {"failed", "sent"}

\* goroutine t has written its line
HasWritten(t) == tasks[t].pc \in {"unlock", "send", "sent"}

TasksOfBatch(b) == {t \in 1..Len(tasks) : tasks[t].batch = b}

\* the indices (in relays) of the candidates of batches before b that had
\* a successful dial
SuccessfulBefore(b) ==
  {tasks[t].cand : t \in {u \in 1..Len(tasks) :
                            tasks[u].batch < b /\ Succeeded(u)}}

\* the candidates with a successful dial, in the order of relays
SuccessfulInOrder ==
  LET ok == {tasks[t].cand : t \in {u \in 1..Len(tasks) : Succeeded(u)}}
      idx == SelectSeq([k \in 1..Len(relays) |-> k], LAMBDA k : k \in ok)
  IN  [k \in 1..Len(idx) |-> relays[idx[k]].Fingerprint]

(***************************************************************************)
(* main and checkRelay on one relay with more addresses than the result    *)
(* channel of its batch has places, under one schedule of the goroutines:  *)
(* they run once main is at wg.Wait(), one after the other in the order    *)
(* they were started.  Every behaviour of SpecBurst is a behaviour of      *)
(* Spec started from the same flags and relay.                             *)
(***************************************************************************)
\* addresses of the relay beyond the capacity of the channel
MaxOver == 1

RelayBig ==
  Relay(<<"B">>,
        [k \in 1..(ChanFactor + MaxOver) |-> <<"a", ":">> \o Itoa(k)],
        <<"U">>)

InitBurst ==
  /\ fetched = <<RelayBig>>
  /\ preferredCountry = <<>>
  /\ ports = <<>>
  /\ numRelays = 1
  /\ goal = 1
  /\ torrcFmt = FALSE
  /\ loopVarPerIter \in BOOLEAN
  /\ bridgesFile = OldContent
  /\ InitNoPrefs
  /\ InitRest

\* the goroutine the schedule lets run
turn(t) == pc = "wait" /\ \A u \in 1..(t - 1) : Finished(u)

NextBurst ==
  \/ Filter
  \/ OpenBridges
  \/ LoopHead
  \/ RangeChunk
  \/ Spawn
  \/ Wait
  \/ Fold
  \/ Collect
  \/ Finish
  \/ \E t \in 1..Len(tasks) : turn(t) /\ Dial(t)
  \/ \E t \in 1..Len(tasks) : turn(t) /\ Lock(t)
  \/ \E t \in 1..Len(tasks) : turn(t) /\ Write(t)
  \/ \E t \in 1..Len(tasks) : turn(t) /\ Unlock(t)
  \/ \E t \in 1..Len(tasks) : turn(t) /\ Send(t)

SpecBurst == InitBurst /\ [][NextBurst]_vars

(***************************************************************************)
(* C1. Goal termination: after a batch has completed, the next batch is    *)
(* launched if and only if the accepted set holds fewer than goal          *)
(* candidates and unprocessed candidates remain; in particular no batch is *)
(* launched once goal or more of the candidates processed so far had a     *)
(* successful dial.                                                        *)
(***************************************************************************)
C1_GoalTermination ==
  [][(pc = "loop" /\ batchNo >= 1) =>
       /\ (pc' = "range") <=> (Len(workingRelays) < goal /\ i < Len(relays))
       /\ (pc' = "range") => Cardinality(SuccessfulBefore(batchNo + 1)) < goal]_vars

(***************************************************************************)
(* C2. Completeness of the accepted set: when the run ends, every          *)
(* candidate that had an address whose dial succeeded is in workingRelays, *)
(* and its Reachable holds every such address.                             *)
(***************************************************************************)
C2_AcceptedSetComplete ==
  pc = "done" =>
    \A t \in 1..Len(tasks) :
      Succeeded(t) =>
        \E k \in 1..Len(workingRelays) :
          /\ workingRelays[k].Fingerprint = relays[tasks[t].cand].Fingerprint
          /\ tasks[t].address \in Range(workingRelays[k].Reachable)

(***************************************************************************)
(* C3. Sink line count and append-only: in every state the sink is its     *)
(* content when the batch was launched (which starts with what earlier     *)
(* runs left) followed by one whole newline-terminated line per goroutine  *)
(* of the batch that has written, each "<address> <fingerprint>"; at the   *)
(* barrier these are the goroutines whose dial succeeded.                  *)
(***************************************************************************)
C3_NewPart == SubSeq(bridgesFile, Len(fileAtLaunch) + 1, Len(bridgesFile))

C3_IsLineOf(part, address) ==
  \E r \in Range(relays) : part = address \o <<" ">> \o r.Fingerprint

C3_SinkAppendOnly ==
  batchNo >= 1 =>
    LET written == {t \in TasksOfBatch(batchNo) : HasWritten(t)}
        parts   == Split(C3_NewPart, "\n")
        M       == Cardinality(written)
    IN  /\ IsPrefix(OldContent, fileAtLaunch)
        /\ IsPrefix(fileAtLaunch, bridgesFile)
        /\ Len(parts) = M + 1
        /\ parts[M + 1] = <<>>
        /\ \A t \in written :
             Cardinality({k \in 1..M : C3_IsLineOf(parts[k], tasks[t].address)})
               = Cardinality({u \in written : tasks[u].address = tasks[t].address})
        /\ pc = "fold" =>
             written = {t \in TasksOfBatch(batchNo) : Succeeded(t)}

\* at the barrier of a batch with a failed dial and two successful ones,
\* whose lines were written in the order opposite to the launch order
C3_Witness ==
  /\ pc = "fold"
  /\ \E t, u, v \in TasksOfBatch(batchNo) :
       /\ t < u
       /\ tasks[t].pc = "sent" /\ tasks[u].pc = "sent" /\ tasks[v].pc = "failed"
       /\ IsPrefix(fileAtLaunch \o tasks[u].line \o tasks[t].line, bridgesFile)

(***************************************************************************)
(* C4. Pairing in the sink: the line a goroutine writes is                 *)
(* "<address> <fingerprint>" with the fingerprint of the candidate the     *)
(* goroutine was launched for.                                             *)
(***************************************************************************)
C4_SinkPairing ==
  \A t \in 1..Len(tasks) :
    Succeeded(t) =>
      tasks[t].line =
        sinkLine(tasks[t].address, relays[tasks[t].cand].Fingerprint)

(***************************************************************************)
(* C5. Batch barrier: folding, the termination test and the launch of the  *)
(* next batch happen only when every goroutine has returned; goroutines    *)
(* still running all belong to the current batch; the run does not end     *)
(* with a goroutine still running.                                         *)
(***************************************************************************)
C5_BatchBarrier ==
  /\ pc \in {"fold", "collect", "loop", "finish", "done"} =>
       \A t \in 1..Len(tasks) : Finished(t)
  /\ \A t \in 1..Len(tasks) : ~Finished(t) => tasks[t].batch = batchNo

\* the barrier of a second batch, in which a dial failed and one succeeded,
\* launched after a first batch in which a dial succeeded
C5_Witness ==
  /\ pc = "fold"
  /\ batchNo = 2
  /\ \E t \in TasksOfBatch(1) : tasks[t].pc = "sent"
  /\ \E t, u \in TasksOfBatch(2) : tasks[t].pc = "sent" /\ tasks[u].pc = "failed"

(***************************************************************************)
(* C6. Empty candidate list: when nothing is left after filtering, main    *)
(* is in the fatal state, the sink was not opened, no goroutine was        *)
(* launched and nothing was written to the output or to the sink.          *)
(***************************************************************************)
C6_EmptyListIsFatal ==
  (pc # "filter" /\ relays = <<>>) =>
    /\ pc = "fatal"
    /\ ~bridgesOpen
    /\ tasks = <<>>
    /\ batchNo = 0
    /\ outfile = <<>>
    /\ bridgesFile = OldContent

\* relays were fetched and the filter dropped them all
C6_Witness == pc = "fatal" /\ relays = <<>> /\ fetched # <<>>

(***************************************************************************)
(* C7. A failed dial is absorbed: the step in which a dial fails changes   *)
(* neither the sink, the channel, the loop variables, the accepted set,    *)
(* the mutex, main's position nor any other goroutine, and it decrements   *)
(* the WaitGroup; once goroutines exist main is never in the fatal state;  *)
(* and when every goroutine of the batch has returned the barrier is open. *)
(***************************************************************************)
C7_FailureAbsorbed ==
  [][/\ \A t \in 1..Len(tasks) :
          (tasks[t].pc = "dial" /\ tasks'[t].pc = "failed") =>
            /\ bridgesFile' = bridgesFile
            /\ results' = results
            /\ loopVars' = loopVars
            /\ workingRelays' = workingRelays
            /\ mu' = mu
            /\ pc' = pc
            /\ wg' = wg - 1
            /\ \A u \in 1..Len(tasks) : u # t => tasks'[u] = tasks[u]
     /\ tasks' # <<>> => pc' # "fatal"
     /\ (pc' = "wait" /\ \A t \in 1..Len(tasks') :
                           tasks'[t].pc \in {"failed", "sent"}) => wg' = 0
     /\ \A t \in 1..Len(tasks') :
          tasks'[t].pc = "failed" =>
            /\ mu' # t
            /\ \A k \in 1..Len(results') :
                 results'[k].Address # tasks'[t].address]_vars

\* a dial of the first batch failed, another dial of that batch succeeded
\* afterwards, and a second batch is running
C7_Witness ==
  /\ batchNo = 2
  /\ \E t, u \in TasksOfBatch(1) :
       t < u /\ tasks[t].pc = "failed" /\ tasks[u].pc = "sent"
  /\ \E t \in TasksOfBatch(2) : tasks[t].pc = "write"

C9_Tokens(rule) ==
  IF rule = <<>> THEN {} ELSE {TrimSpace(x) : x \in Range(Split(rule, ","))}

C9_ExclusiveOnly(rule) == {Tail(x) : x \in {y \in C9_Tokens(rule) : HasPrefix(y, "!")}}

C9_Excluded(rule) == {Tail(x) : x \in {y \in C9_Tokens(rule) : HasPrefix(y, "-")}}

C9_PortIn(addr, portList) == parseAddress(addr).port \in Range(portList)

C9_Survives(r, rule, portList) ==
  /\ C9_ExclusiveOnly(rule) = {} \/ r.Country \in C9_ExclusiveOnly(rule)
  /\ r.Country \notin C9_Excluded(rule)
  /\ portList = <<>> \/ \E a \in Range(r.OrAddresses) : C9_PortIn(a, portList)

C9_Narrowed(r, portList) ==
  IF portList = <<>> THEN r
  ELSE [r EXCEPT !.OrAddresses =
          SelectSeq(r.OrAddresses, LAMBDA a : C9_PortIn(a, portList))]

C9_FilterMatchesReference ==
  [][(pc = "filter" /\ pc' # "filter") =>
       LET portList == portListOf(ports)
           keep == {k \in 1..Len(fetched) :
                      C9_Survives(fetched[k], preferredCountry, portList)}
       IN  /\ Len(relays') = Cardinality(keep)
           /\ \A k \in keep :
                \E j \in 1..Len(relays') :
                  relays'[j] = C9_Narrowed(fetched[k], portList)
           /\ fetched' = fetched]_vars

\* of two fetched relays one was dropped and the other survived with fewer
\* addresses, under a country rule and a port list
C9_Witness ==
  /\ pc = "open"
  /\ preferredCountry # <<>>
  /\ ports # <<>>
  /\ Len(fetched) = 2
  /\ Len(relays) = 1
  /\ \E k \in 1..2 :
       /\ fetched[k].Fingerprint = relays[1].Fingerprint
       /\ Len(relays[1].OrAddresses) < Len(fetched[k].OrAddresses)

(***************************************************************************)
(* C10. Preference ordering is a stable sort: when preferenceOrder is not  *)
(* empty, the survivors are in ascending order of the rank of their        *)
(* country, a candidate whose country has no rank comes after every        *)
(* candidate whose country has one, and candidates of equal rank (the      *)
(* unranked ones included) are in the order they had in the input.         *)
(***************************************************************************)
C10_PositionInInput(r) ==
  CHOOSE k \in 1..Len(fetched) : fetched[k].Fingerprint = r.Fingerprint

C10_StablePreferenceSort ==
  LET preferenceOrder == parseCountries(preferredCountry).sortedCountries
      ranked(r) == r.Country \in DOMAIN preferenceOrder
      sameRank(a, b) ==
        \/ ~ranked(a) /\ ~ranked(b)
        \/ ranked(a) /\ ranked(b)
             /\ preferenceOrder[a.Country] = preferenceOrder[b.Country]
  IN  (pc # "filter" /\ DOMAIN preferenceOrder # {}) =>
        \A a, b \in 1..Len(relays) :
          a < b =>
            /\ ranked(relays[b]) =>
                 /\ ranked(relays[a])
                 /\ preferenceOrder[relays[a].Country]
                      <= preferenceOrder[relays[b].Country]
            /\ sameRank(relays[a], relays[b]) =>
                 C10_PositionInInput(relays[a]) < C10_PositionInInput(relays[b])

(***************************************************************************)
(* Definitions shared by the properties of generateOutput.                 *)
(***************************************************************************)
\* the (address, fingerprint) pairs of an accepted set, relay by relay and
\* in the order of Reachable
RECURSIVE PairsOf(_)
PairsOf(working) ==
  IF working = <<>> THEN <<>>
  ELSE [a \in 1..Len(Head(working).Reachable) |->
          [address |-> Head(working).Reachable[a],
           fingerprint |-> Head(working).Fingerprint]]
       \o PairsOf(Tail(working))

BridgeWord == <<"B", "r", "i", "d", "g", "e", " ">>

UseBridgesLine == <<"U", "s", "e", "B", "r", "i", "d", "g", "e", "s", " ", "1">>

\* the lines "<address> <fingerprint>" of the pairs, with "Bridge " in front
\* of each in torrc format
ExpectedLines(working, torrc) ==
  [k \in 1..Len(PairsOf(working)) |->
     (IF torrc THEN BridgeWord ELSE <<>>)
       \o PairsOf(working)[k].address \o <<" ">>
       \o PairsOf(working)[k].fingerprint]

(***************************************************************************)
(* C11. A prefs.js that is missing or unreadable does not retract output:  *)
(* generateOutput returns an error (main ends in the fatal state), leaves  *)
(* prefs.js as it was, and outfile holds the line of every pair of the     *)
(* accepted set.                                                           *)
(***************************************************************************)
C11_PrefsFailureKeepsOutput ==
  [][(/\ pc = "finish"
      /\ Len(workingRelays) > 0
      /\ prefsjs # <<>>
      /\ prefsFile.state \in {"missing", "unreadable"}) =>
       /\ pc' = "fatal"
       /\ prefsFile' = prefsFile
       /\ IsPrefix(outfile, outfile')
       /\ LET written == Split(SubSeq(outfile', Len(outfile) + 1, Len(outfile')),
                               "\n")
              expected == ExpectedLines(workingRelays, torrcFmt)
          IN  /\ Len(written) > Len(expected)
              /\ \A k \in 1..Len(expected) : written[k] = expected[k]]_vars

\* generateOutput has failed on a missing prefs.js with an accepted set of
\* two relays, and outfile is not empty
C11_Witness ==
  /\ pc = "fatal"
  /\ prefsjs # <<>>
  /\ prefsFile.state = "missing"
  /\ Len(workingRelays) = 2
  /\ outfile # <<>>

(***************************************************************************)
(* C12. Running index of prefs.js: the generated bridge lines carry the    *)
(* indices 0, 1, ..., P-1 over the P (candidate, address) pairs, in pair   *)
(* order, so no two of them share an index.                                *)
(***************************************************************************)
C12_RunningIndex ==
  [][(/\ pc = "finish"
      /\ Len(workingRelays) > 0
      /\ prefsjs # <<>>
      /\ prefsFile.state = "ok") =>
       LET lines == Split(prefsFile'.content, "\n")
           pairs == PairsOf(workingRelays)
           P     == Len(pairs)
       IN  /\ Len(lines) >= P + 2
           /\ \A k \in 1..P :
                lines[Len(lines) - 2 - P + k] =
                  prefsLine(k - 1, pairs[k].address, pairs[k].fingerprint)]_vars

(***************************************************************************)
(* C13. Plain and torrc rendering: generateOutput writes one line          *)
(* "<address> <fingerprint>" per pair, in the order of the accepted set    *)
(* and then of Reachable; with -torrc each has "Bridge " in front and one  *)
(* line "UseBridges 1" follows as the last line; otherwise nothing else is *)
(* written.                                                                *)
(***************************************************************************)
C13_Rendering ==
  [][(pc = "finish" /\ Len(workingRelays) > 0) =>
       /\ IsPrefix(outfile, outfile')
       /\ Split(SubSeq(outfile', Len(outfile) + 1, Len(outfile')), "\n")
            = ExpectedLines(workingRelays, torrcFmt)
                \o (IF torrcFmt THEN <<UseBridgesLine>> ELSE <<>>)
                \o << <<>> >>]_vars

\* generateOutput has written, in torrc format, an accepted set of two
\* relays and three pairs
C13_Witness ==
  /\ pc = "done"
  /\ torrcFmt
  /\ Len(workingRelays) = 2
  /\ Len(PairsOf(workingRelays)) = 3
  /\ Len(Split(outfile, "\n")) = 5

(***************************************************************************)
(* C14. Address parsing rule: an address in bracketed form, a closing      *)
(* bracket immediately before its last colon, is split at that colon, the  *)
(* host being the text between the brackets and the port the text after    *)
(* the colon; any other address is split at its first colon, the host      *)
(* being the text before it and the port all the text after it.            *)
(***************************************************************************)
C14_FirstIndex(s, c) == Min({q \in 1..Len(s) : s[q] = c})

C14_Bracketed(addr) ==
  LET p == LastIndex(addr, ":")
  IN  p >= 3 /\ addr[1] = "[" /\ addr[p - 1] = "]"

C14_Reference(addr) ==
  IF C14_Bracketed(addr)
  THEN LET p == LastIndex(addr, ":")
       IN  [host |-> SubSeq(addr, 2, p - 2),
            port |-> SubSeq(addr, p + 1, Len(addr))]
  ELSE LET p == C14_FirstIndex(addr, ":")
       IN  [host |-> SubSeq(addr, 1, p - 1),
            port |-> SubSeq(addr, p + 1, Len(addr))]

C14_ParsingRule ==
  (pc = "parsed" /\ LastIndex(parseIn, ":") > 0) =>
     parseOut = C14_Reference(parseIn)

(***************************************************************************)
(* C15. Run termination without deadlock: as long as the run has not       *)
(* ended (in GoalReached or Exhausted, or by a fatal error), main or some  *)
(* goroutine can take a step, whatever the number of successful dials of   *)
(* a batch, more than the result channel has places included.              *)
(***************************************************************************)
C15_RunNeverStuck == pc \in {"done", "fatal"} \/ ENABLED Next

(***************************************************************************)
(* C16. Mutual exclusion on the sink: at most one goroutine is between     *)
(* mu.Lock() and mu.Unlock(), and it is the one the mutex records; the     *)
(* sink changes only by a step of the goroutine that holds the mutex, its  *)
(* single write; the holder can always take its next step, it does not     *)
(* return while holding, and no goroutine holds the mutex once the batch   *)
(* has passed its barrier.                                                 *)
(***************************************************************************)
C16_Holders == {t \in 1..Len(tasks) : tasks[t].pc \in {"write", "unlock"}}

C16_OneHolder ==
  /\ Cardinality(C16_Holders) <= 1
  /\ C16_Holders = IF mu = 0 THEN {} ELSE {mu}
  /\ pc \in {"fold", "collect", "loop", "finish", "done"} => mu = 0

C16_MutualExclusion ==
  [][/\ C16_OneHolder
     /\ C16_OneHolder'
     /\ mu # 0 => ENABLED (Write(mu) \/ Unlock(mu))
     /\ bridgesFile' # bridgesFile =>
          /\ mu # 0 /\ mu' = mu
          /\ tasks[mu].pc = "write" /\ tasks'[mu].pc = "unlock"
          /\ \A u \in (1..Len(tasks)) \ {mu} : tasks'[u] = tasks[u]
     /\ \A t \in 1..Len(tasks) :
          (tasks[t].pc = "unlock" /\ tasks'[t] # tasks[t]) =>
             (mu = t /\ mu' = 0 /\ bridgesFile' = bridgesFile)]_vars

\* a goroutine holds the mutex, has written, and another waits for it
C16_Witness ==
  \E t, u \in 1..Len(tasks) :
     /\ mu = t /\ tasks[t].pc = "unlock"
     /\ tasks[u].pc = "lock"

(***************************************************************************)
(* C17. Batches partition the candidate order: batch number b holds the    *)
(* candidates (b-1)*numRelays+1 .. b*numRelays of the ordered list, cut at *)
(* the end of the list; goroutines are started in list order; a candidate  *)
(* is dialed in one batch only, each of its addresses once and in order;   *)
(* a batch that has been launched wholly holds every candidate of its      *)
(* slice with all its addresses; and when the run ends with fewer than     *)
(* goal accepted candidates, every candidate has been in a batch.          *)
(***************************************************************************)
C17_SliceOf(b) ==
  ((b - 1) * numRelays + 1)..Min({b * numRelays, Len(relays)})

C17_CandsOf(b) == {tasks[t].cand : t \in TasksOfBatch(b)}

C17_DialedOf(c) ==
  LET idx == SelectSeq([k \in 1..Len(tasks) |-> k],
                       LAMBDA k : tasks[k].cand = c)
  IN  [k \in 1..Len(idx) |-> tasks[idx[k]].address]

C17_Launched(b) ==
  b < batchNo \/ (b = batchNo /\ pc \notin {"range", "spawn"})

C17_BatchesPartition ==
  /\ \A t \in 1..Len(tasks) :
        /\ tasks[t].batch \in 1..batchNo
        /\ tasks[t].cand \in C17_SliceOf(tasks[t].batch)
  /\ \A t, u \in 1..Len(tasks) : t < u => tasks[t].cand <= tasks[u].cand
  /\ \A c \in 1..Len(relays) :
        LET dialed == C17_DialedOf(c)
        IN  /\ IsPrefix(dialed, relays[c].OrAddresses)
            /\ (\E b \in 1..batchNo : C17_Launched(b) /\ c \in C17_SliceOf(b))
                  => dialed = relays[c].OrAddresses
  /\ \A b \in 1..batchNo :
        /\ C17_SliceOf(b) # {}
        /\ b < batchNo => Cardinality(C17_SliceOf(b)) = numRelays
        /\ C17_Launched(b) => C17_CandsOf(b) = C17_SliceOf(b)
  /\ (pc = "done" /\ Len(workingRelays) < goal) =>
        /\ UNION {C17_CandsOf(b) : b \in 1..batchNo} = 1..Len(relays)
        /\ \A c \in 1..Len(relays) :
              Cardinality({b \in 1..batchNo : c \in C17_CandsOf(b)}) = 1

\* the run has ended after two batches, or after one batch shorter than
\* numRelays
C17_Witness ==
  /\ pc = "done"
  /\ Len(tasks) > 0
  /\ batchNo = 2 \/ Len(relays) < numRelays

(***************************************************************************)
(* C18. Sink write precedes aggregation: in every state, a goroutine that  *)
(* is about to send or has sent its result has its line in _bridges.txt,   *)
(* a line that begins with its address; every result in the channel is     *)
(* that of such a goroutine; and every address recorded in a Reachable     *)
(* has a line in _bridges.txt.                                             *)
(***************************************************************************)
\* line (ending in a newline) is a whole line of _bridges.txt
C18_InSink(line) ==
  \E q \in 0..(Len(bridgesFile) - Len(line)) :
     /\ q = 0 \/ bridgesFile[q] = "\n"
     /\ SubSeq(bridgesFile, q + 1, q + Len(line)) = line

C18_Written(t) ==
  /\ C18_InSink(tasks[t].line)
  /\ IsPrefix(tasks[t].address \o <<" ">>, tasks[t].line)
  /\ tasks[t].line[Len(tasks[t].line)] = "\n"

C18_HasLine(address) ==
  \E r \in Range(relays) : C18_InSink(sinkLine(address, r.Fingerprint))

C18_WriteBeforeEmit ==
  /\ \A t \in 1..Len(tasks) :
        tasks[t].pc \in {"send", "sent"} => C18_Written(t)
  /\ \A k \in 1..Len(results) :
        \E t \in TasksOfBatch(batchNo) :
           /\ tasks[t].pc = "sent"
           /\ tasks[t].address = results[k].Address
           /\ tasks[t].relay = results[k].Relay
           /\ C18_Written(t)
  /\ \A r \in Range(loopVars) \cup Range(workingRelays) \cup Range(relays) :
        \A a \in Range(r.Reachable) : C18_HasLine(a)

\* a result is in the channel while a goroutine of the batch is still
\* dialing: a kill here loses no bridge found so far
C18_Witness ==
  /\ Len(results) > 0
  /\ \E t, u \in TasksOfBatch(batchNo) :
       /\ tasks[t].pc = "sent" /\ C18_Written(t)
       /\ tasks[u].pc = "dial"

(***************************************************************************)
(* C19. No unguarded shared mutable state: a Reachable is appended to only *)
(* while no goroutine of the batch is running, and the Relay a running     *)
(* goroutine points to is not written by any step of main, the loop that   *)
(* starts the goroutines included.                                         *)
(***************************************************************************)
C19_Running == {t \in 1..Len(tasks) : ~Finished(t)}

C19_NoUnguardedSharing ==
  [][/\ (\E k \in DOMAIN loopVars \cap DOMAIN loopVars' :
           loopVars'[k].Reachable # loopVars[k].Reachable) => C19_Running = {}
     /\ \A t \in C19_Running :
          /\ tasks[t].relay \in DOMAIN loopVars'
          /\ loopVars'[tasks[t].relay] = loopVars[tasks[t].relay]]_vars

(***************************************************************************)
(* C20. Reachable invariant: in every state the Reachable of every Relay   *)
(* value holds only addresses of that relay's own OrAddresses whose dial   *)
(* succeeded; no step removes an address from a Reachable; and every relay *)
(* of workingRelays has a non-empty Reachable.                             *)
(***************************************************************************)
C20_Candidates ==
  Range(loopVars) \cup Range(relays) \cup Range(workingRelays)

C20_DialedOk(r, a) ==
  \E t \in 1..Len(tasks) :
     /\ Succeeded(t)
     /\ tasks[t].address = a
     /\ relays[tasks[t].cand].Fingerprint = r.Fingerprint

C20_OwnAndSuccessful ==
  \A r \in C20_Candidates :
     \A a \in Range(r.Reachable) :
        a \in Range(r.OrAddresses) /\ C20_DialedOk(r, a)

C20_ReachableInvariant ==
  [][/\ C20_OwnAndSuccessful'
     /\ \A k \in DOMAIN relays \cap DOMAIN relays' :
          IsPrefix(relays[k].Reachable, relays'[k].Reachable)
     /\ \A k \in DOMAIN loopVars \cap DOMAIN loopVars' :
          loopVars'[k].Fingerprint = loopVars[k].Fingerprint =>
             IsPrefix(loopVars[k].Reachable, loopVars'[k].Reachable)
     /\ \A r \in Range(workingRelays') : Len(r.Reachable) > 0]_vars
====
